---------------------------- MODULE Spec2Model ----------------------------
(***************************************************************************)
(* Model of app/src/pygoogle.py: signature normalisation, function         *)
(* extraction and indexing with the functions.json cache, and ranking by   *)
(* edit distance.                                                          *)
(*                                                                         *)
(* A Python str is a sequence of one-character strings; a Python list is a *)
(* sequence; an optional value (a file that may not exist, a result not    *)
(* computed yet) is a sequence of length 0 or 1.                           *)
(***************************************************************************)
EXTENDS Naturals, Integers, Sequences, FiniteSets, TLC

VARIABLES
    \* ---- normalize() ----
    raw,            \* the string handed to normalize
    variant,        \* raw with whitespace padded in
    pads,           \* how many characters were padded into variant
    padOK,          \* every padding was a space, or was in the argument list
    norm1,          \* normalize(raw), once computed
    norm2,          \* normalize(normalize(raw)), once computed
    normV,          \* normalize(variant), once computed
    \* ---- sort() / __main__ ----
    rawq,           \* the query as the user typed it
    sortq,          \* the query argument sort() received
    funcs,          \* the functions argument sort() received
    ranked,         \* what sort() returned
    via,            \* "none", "direct" (sort(rawq, ..)) or "main" (__main__)
    \* ---- index_folder() ----
    fs,             \* the files that exist under the working directory
    cache,          \* the content of functions.json, when it exists
    userIgnore,     \* the list object the caller passes as folders_to_ignore
    defaultIgnore,  \* the list object bound to the folders_to_ignore default
    ret,            \* outcome of the last index_folder call
    call,           \* the last index_folder call, while nothing else happened
    log             \* files announced by 'Reading ...' during the last call

normVars  == <<raw, variant, pads, padOK, norm1, norm2, normV>>
sortVars  == <<rawq, sortq, funcs, ranked, via>>
indexVars == <<fs, cache, userIgnore, defaultIgnore, ret, call, log>>
vars      == <<normVars, sortVars, indexVars>>

-----------------------------------------------------------------------------
(* Bounds *)

MaxLen == 4
MaxPad == 2

-----------------------------------------------------------------------------
(* Python str primitives *)

\* str.startswith / str.endswith
StartsWith(s, p) == Len(s) >= Len(p) /\ SubSeq(s, 1, Len(p)) = p
EndsWith(s, p) == Len(s) >= Len(p) /\ SubSeq(s, Len(s) - Len(p) + 1, Len(s)) = p

\* str.split(c) for a one-character separator: always at least one piece
RECURSIVE Split(_, _)
Split(s, c) ==
    IF s = <<>> THEN << <<>> >>
    ELSE LET rest == Split(Tail(s), c)
         IN  IF Head(s) = c
             THEN << <<>> >> \o rest
             ELSE << <<Head(s)>> \o rest[1] >> \o Tail(rest)

\* sep.join(parts)
RECURSIVE Join(_, _)
Join(parts, sep) ==
    IF parts = <<>> THEN <<>>
    ELSE IF Len(parts) = 1 THEN parts[1]
    ELSE parts[1] \o sep \o Join(Tail(parts), sep)

\* str.replace(c, '')
Remove(s, c) == SelectSeq(s, LAMBDA ch : ch # c)

\* the characters str.lstrip() / str.rstrip() remove
Whitespace == {" ", "\t"}

RECURSIVE LStrip(_)
LStrip(s) ==
    IF s # <<>> /\ Head(s) \in Whitespace THEN LStrip(Tail(s)) ELSE s

RECURSIVE RStrip(_)
RStrip(s) ==
    IF s # <<>> /\ s[Len(s)] \in Whitespace
    THEN RStrip(SubSeq(s, 1, Len(s) - 1)) ELSE s

-----------------------------------------------------------------------------
(* normalize *)

\* split_query[1] exists
HasParen(query) == Len(Split(query, "(")) >= 2

\* faulty variant: empty tokens are kept
NameTokensKeepEmpty(name) == Split(name, " ")

\* [a for a in name.split(' ') if a != '']
NameTokens(name) == SelectSeq(Split(name, " "), LAMBDA a : a # <<>>)

\* faulty variant: the arguments are not trimmed
StripArgsNoTrim(args) == Split(args, ",")

\* [a.lstrip().rstrip() for a in args.split(',')]
StripArgs(args) ==
    LET parts == Split(args, ",")
    IN  [i \in 1..Len(parts) |-> RStrip(LStrip(parts[i]))]

\* normalize(query), for a query with a '(' (IndexError otherwise)
normalize(query) ==
    LET split_query == Split(query, "(")
        name == Join(NameTokens(split_query[1]), <<"_">>)
        args == Join(StripArgs(Remove(split_query[2], ")")), <<",", " ">>)
    IN  name \o <<" ", "(", " ">> \o args \o <<" ", ")">>

-----------------------------------------------------------------------------
(* Inputs of normalize, and whitespace padding of a signature *)

Alphabet == {"a", " ", "\t", "(", ")", ","}

Strings(n) == UNION {[1..k -> Alphabet] : k \in 0..n}

SampleNames ==
    { <<>>, <<"a">>, <<"a", " ", "b">>, <<"a", "\t", "b">>,
      <<" ", "a", " ", " ", "b", " ">> }

SampleArgs ==
    { <<>>, <<"a">>, <<"a", ",", "b">>, <<" ", "a", " ", ",", "\t", "b">>,
      <<"a", " ", "b">> }

SampleSignatures ==
    { n \o <<"(">> \o g \o <<")">> : n \in SampleNames, g \in SampleArgs }

Count(s, c) == Len(SelectSeq(s, LAMBDA ch : ch = c))

\* one '(' separating the name from the argument list, which ends with ')'
WellFormed(s) ==
    /\ Count(s, "(") = 1
    /\ Count(s, ")") = 1
    /\ LET t == RStrip(s) IN t[Len(t)] = ")"

FirstParen(s) == CHOOSE i \in 1..Len(s) : s[i] = "(" /\ \A j \in 1..(i-1) : s[j] # "("

Insert(s, i, ch) == SubSeq(s, 1, i) \o <<ch>> \o SubSeq(s, i + 1, Len(s))

\* nearest character left of / right of the gap after position i that is not in W
RECURSIVE LeftNon(_, _, _)
LeftNon(s, i, W) ==
    IF i < 1 THEN "^" ELSE IF s[i] \in W THEN LeftNon(s, i - 1, W) ELSE s[i]

RECURSIVE RightNon(_, _, _)
RightNon(s, i, W) ==
    IF i >= Len(s) THEN "$"
    ELSE IF s[i + 1] \in W THEN RightNon(s, i + 1, W) ELSE s[i + 1]

Delims == {"(", ")", ","}

\* the gap after position i is between two words of the name, next to a
\* parenthesis, or next to a comma-separated argument
PadPlace(s, i) ==
    IF i < FirstParen(s)
    THEN \/ i >= 1 /\ s[i] \in Whitespace
         \/ s[i + 1] \in Whitespace
         \/ RightNon(s, i, Whitespace) = "("
    ELSE \/ LeftNon(s, i, Whitespace) \in Delims
         \/ RightNon(s, i, Whitespace) \in Delims \cup {"$"}

\* the same, with the space character as the only separator of the name
SpacePlace(s, i, ch) ==
    IF i < FirstParen(s)
    THEN /\ ch = " "
         /\ \/ i >= 1 /\ s[i] = " "
            \/ s[i + 1] = " "
            \/ RightNon(s, i, {" "}) = "("
    ELSE PadPlace(s, i)

InitNormalize ==
    /\ raw \in Strings(MaxLen) \cup SampleSignatures
    /\ variant = raw
    /\ pads = 0
    /\ padOK = TRUE
    /\ norm1 = <<>> /\ norm2 = <<>> /\ normV = <<>>

\* normalize(raw)
NormalizeRaw ==
    /\ norm1 = <<>>
    /\ HasParen(raw)
    /\ norm1' = <<normalize(raw)>>
    /\ UNCHANGED <<raw, variant, pads, padOK, norm2, normV>>
    /\ UNCHANGED <<sortVars, indexVars>>

\* normalize(normalize(raw))
NormalizeAgain ==
    /\ norm1 # <<>> /\ norm2 = <<>>
    /\ HasParen(norm1[1])
    /\ norm2' = <<normalize(norm1[1])>>
    /\ UNCHANGED <<raw, variant, pads, padOK, norm1, normV>>
    /\ UNCHANGED <<sortVars, indexVars>>

\* the caller writes the same signature with more whitespace
Pad(i, ch) ==
    /\ norm2 # <<>>
    /\ WellFormed(variant)
    /\ pads < MaxPad
    /\ PadPlace(variant, i)
    /\ variant' = Insert(variant, i, ch)
    /\ pads' = pads + 1
    /\ padOK' = (padOK /\ SpacePlace(variant, i, ch))
    /\ normV' = <<>>
    /\ UNCHANGED <<raw, norm1, norm2>>
    /\ UNCHANGED <<sortVars, indexVars>>

\* normalize(variant)
NormalizeVariant ==
    /\ pads > 0 /\ normV = <<>>
    /\ normV' = <<normalize(variant)>>
    /\ UNCHANGED <<raw, variant, pads, padOK, norm1, norm2>>
    /\ UNCHANGED <<sortVars, indexVars>>

NextNormalize ==
    \/ NormalizeRaw
    \/ NormalizeAgain
    \/ \E i \in 0..Len(variant), ch \in Whitespace : Pad(i, ch)
    \/ NormalizeVariant

-----------------------------------------------------------------------------
(* get_signature, lev, sort *)

Digit(d) == <<"0", "1", "2", "3", "4", "5", "6", "7", "8", "9">>[d + 1]

\* str(n) for n >= 0
RECURSIVE IntToStr(_)
IntToStr(n) == IF n < 10 THEN <<Digit(n)>> ELSE IntToStr(n \div 10) \o <<Digit(n % 10)>>

\* args += str(a) + ', ' for every a
RECURSIVE ArgsText(_)
ArgsText(args) ==
    IF args = <<>> THEN <<>> ELSE Head(args) \o <<",", " ">> \o ArgsText(Tail(args))

\* args[:-2]
DropLast2(s) == SubSeq(s, 1, Len(s) - 2)

\* faulty variant: the trailing ', ' is left in the argument text
get_signature_untrimmed(function, file_infos) ==
    LET signature == function.name \o <<"(">> \o ArgsText(function.args) \o <<")">>
    IN  IF file_infos
        THEN function.filename \o <<":">> \o IntToStr(function.line) \o <<" ">> \o signature
        ELSE signature

get_signature(function, file_infos) ==
    LET args == ArgsText(function.args)
        signature == function.name \o <<"(">> \o DropLast2(args) \o <<")">>
    IN  IF file_infos
        THEN function.filename \o <<":">> \o IntToStr(function.line) \o <<" ">> \o signature
        ELSE signature

Min3(x, y, z) == IF x <= y /\ x <= z THEN x ELSE IF y <= z THEN y ELSE z

\* one row of the edit-distance table, for character ch of the first string
RECURSIVE LevRow(_, _, _, _)
LevRow(prev, ch, b, cur) ==
    IF Len(cur) = Len(b) + 1 THEN cur
    ELSE LET j == Len(cur)
             sub == prev[j] + (IF b[j] = ch THEN 0 ELSE 1)
         IN  LevRow(prev, ch, b, Append(cur, Min3(prev[j + 1] + 1, cur[j] + 1, sub)))

RECURSIVE LevRows(_, _, _, _)
LevRows(a, b, i, prev) ==
    IF i > Len(a) THEN prev[Len(b) + 1]
    ELSE LevRows(a, b, i + 1, LevRow(prev, a[i], b, <<prev[1] + 1>>))

\* levenshtein.lev: unweighted edit distance
lev(a, b) == LevRows(a, b, 1, [j \in 1..(Len(b) + 1) |-> j - 1])

\* faulty variant: an element is placed before the elements of equal key
InsertBeforeEqual(ys, x) ==
    LET k == Len(SelectSeq(ys, LAMBDA y : y[1] < x[1]))
    IN  SubSeq(ys, 1, k) \o <<x>> \o SubSeq(ys, k + 1, Len(ys))

\* sorted(..., key=lambda x: x[0]) places an element after the elements
\* whose key is not greater (the sort is stable)
InsertByKey(ys, x) ==
    LET k == Len(SelectSeq(ys, LAMBDA y : y[1] <= x[1]))
    IN  SubSeq(ys, 1, k) \o <<x>> \o SubSeq(ys, k + 1, Len(ys))

RECURSIVE SortedFrom(_, _)
SortedFrom(xs, acc) ==
    IF xs = <<>> THEN acc ELSE SortedFrom(Tail(xs), InsertByKey(acc, Head(xs)))

sorted(xs) == SortedFrom(xs, <<>>)

\* sort(query, functions): the query is used as it is passed
sort(query, functions) ==
    sorted([i \in 1..Len(functions) |->
               <<lev(query, normalize(get_signature(functions[i], FALSE))), functions[i]>>])

-----------------------------------------------------------------------------
(* Inputs of sort *)

MaxFuncs == 3

S_foo == <<"f", "o", "o">>
S_foobar == <<"f", "o", "o", "b", "a", "r">>
S_baz == <<"b", "a", "z">>
S_a_py == <<"a", ".", "p", "y">>
S_b_py == <<"b", ".", "p", "y">>

Fn(n, a, f, l) == [name |-> n, args |-> a, filename |-> f, line |-> l]

RecFoo == Fn(S_foo, << <<"x">> >>, S_a_py, 1)
RecFoobar == Fn(S_foobar, << <<"x">> >>, S_a_py, 3)
RecBaz == Fn(S_baz, << <<"y">> >>, S_a_py, 12)
RecFooB == Fn(S_foo, << <<"x">> >>, S_b_py, 2)
RecBaz0 == Fn(S_baz, <<>>, S_b_py, 7)

RecordPool == {RecFoo, RecFoobar, RecBaz, RecFooB, RecBaz0}

Q_foo_x == <<"f", "o", "o", "(", "x", ")">>

Queries ==
    { Q_foo_x,
      <<"f", "o", "o", " ", "(", " ", "x", " ", ")">>,
      <<"b", "a", "z", " ", " ", "(", "y", ")">>,
      <<"f", "o", "o">> }

InitSort ==
    /\ rawq \in Queries
    /\ funcs \in UNION {[1..k -> RecordPool] : k \in 0..MaxFuncs}
    /\ sortq = <<>>
    /\ ranked = <<>>
    /\ via = "none"

\* a caller hands the query to sort as typed
SortDirect ==
    /\ via = "none"
    /\ via' = "direct"
    /\ sortq' = rawq
    /\ ranked' = <<sort(rawq, funcs)>>
    /\ UNCHANGED <<rawq, funcs>>
    /\ UNCHANGED <<normVars, indexVars>>

\* __main__: query = normalize(...); sort(query, ...)
Main ==
    /\ via = "none"
    /\ IF HasParen(rawq)
       THEN /\ via' = "main"
            /\ sortq' = normalize(rawq)
            /\ ranked' = <<sort(normalize(rawq), funcs)>>
       ELSE \* IndexError in normalize
            /\ via' = "error"
            /\ UNCHANGED <<sortq, ranked>>
    /\ UNCHANGED <<rawq, funcs>>
    /\ UNCHANGED <<normVars, indexVars>>

NextSort == SortDirect \/ Main

-----------------------------------------------------------------------------
(* The parsed tree of a source file, and extraction *)

Node(k, n, a, l, b) == [kind |-> k, name |-> n, args |-> a, lineno |-> l, body |-> b]

\* ast.iter_child_nodes, restricted to the statements a node contains
iter_child_nodes(node) == node.body

\* ast.walk: breadth first, from a queue holding the root
RECURSIVE walk(_)
walk(todo) ==
    IF todo = <<>> THEN <<>>
    ELSE <<Head(todo)>> \o walk(Tail(todo) \o iter_child_nodes(Head(todo)))

\* os.path.abspath, from a fixed working directory
Cwd == <<"/", "w">>
abspath(path) == Cwd \o <<"/">> \o path

get_function_from_node(node, file_path, use_abspath) ==
    [ name     |-> node.name,
      args     |-> node.args,
      filename |-> IF ~use_abspath THEN file_path ELSE abspath(file_path),
      line     |-> node.lineno ]

\* faulty variant: every name with a leading underscore is skipped
WantedNodeNoUnderscore(node) ==
    node.kind = "FunctionDef" /\ ~StartsWith(node.name, <<"_">>)

\* isinstance(node, ast.FunctionDef) and not node.name.startswith('__')
WantedNode(node) ==
    node.kind = "FunctionDef" /\ ~StartsWith(node.name, <<"_", "_">>)

\* the inner loop of index_folder over ast.walk(parsed)
ExtractFunctions(parsed, filename) ==
    LET nodes == SelectSeq(walk(<<parsed>>), WantedNode)
    IN  [i \in 1..Len(nodes) |-> get_function_from_node(nodes[i], filename, FALSE)]

-----------------------------------------------------------------------------
(* functions.json *)

JStr(s) == [t |-> "string", v |-> s]
JNum(n) == [t |-> "number", v |-> n]
JArr(items) == [t |-> "array", v |-> items]
JObj(members) == [t |-> "object", v |-> members]

\* json.dumps of one function dict: its keys in insertion order
DumpFunction(f) ==
    JObj(<< <<"name", JStr(f.name)>>,
            <<"args", JArr([i \in 1..Len(f.args) |-> JStr(f.args[i])])>>,
            <<"filename", JStr(f.filename)>>,
            <<"line", JNum(f.line)>> >>)

\* save_json(content): the document written to JSON_OUTPUT
save_json(content) == JArr([i \in 1..Len(content) |-> DumpFunction(content[i])])

\* json.load: arrays become lists, objects become dicts (the last member
\* of a repeated key wins)
RECURSIVE Loads(_)
Loads(j) ==
    CASE j.t = "array"  -> [i \in 1..Len(j.v) |-> Loads(j.v[i])]
      [] j.t = "object" ->
            LET keys == {j.v[i][1] : i \in 1..Len(j.v)}
                last(k) == CHOOSE i \in 1..Len(j.v) :
                              /\ j.v[i][1] = k
                              /\ \A i2 \in (i+1)..Len(j.v) : j.v[i2][1] # k
            IN  [k \in keys |-> Loads(j.v[last(k)][2])]
      [] OTHER -> j.v

\* read_json_file(JSON_OUTPUT)
read_json_file(document) == Loads(document)

-----------------------------------------------------------------------------
(* The directory tree *)

S_s == <<"s">>
S_py == <<"p", "y">>
S_test == <<"t", "e", "s", "t">>
S_copy == <<"c", "o", "p", "y">>
S_e_py == <<"e", ".", "p", "y">>
S_c_txt == <<"c", ".", "t", "x", "t">>

\* the paths a file may exist at, as path segments below the working directory
F_a == <<S_s, S_a_py>>
F_b == <<S_s, S_test, S_b_py>>
F_copy == <<S_s, S_py, S_copy>>
F_e == <<S_s, S_py, S_e_py>>
F_txt == <<S_s, S_py, S_c_txt>>

Files == {F_a, F_b, F_copy, F_e, F_txt}

Def(n, a, l, b) == Node("FunctionDef", n, a, l, b)

\* def foo(x): def _p(a, b) / class K: __init__(s), bar(s, y) / async def co()
TreeA ==
    Node("Module", <<>>, <<>>, 0,
      << Def(S_foo, << <<"x">> >>, 1,
            << Def(<<"_", "p">>, << <<"a">>, <<"b">> >>, 2, <<>>) >>),
         Node("ClassDef", <<"K">>, <<>>, 4,
            << Def(<<"_", "_", "i", "n", "i", "t", "_", "_">>, << <<"s">> >>, 5, <<>>),
               Def(<<"b", "a", "r">>, << <<"s">>, <<"y">> >>, 7, <<>>) >>),
         Node("AsyncFunctionDef", <<"c", "o">>, <<>>, 9, <<>>),
         Node("Expr", <<>>, <<>>, 11, <<>>) >>)

TreeB ==
    Node("Module", <<>>, <<>>, 0, << Def(<<"t">>, <<>>, 3, <<>>) >>)

TreeC ==
    Node("Module", <<>>, <<>>, 0, << Def(S_baz, << <<"y">> >>, 1, <<>>) >>)

\* the text of each file, by what ast.parse makes of it
Source(path) ==
    CASE path = F_a    -> [valid |-> TRUE, tree |-> TreeA]
      [] path = F_b    -> [valid |-> TRUE, tree |-> TreeB]
      [] path = F_copy -> [valid |-> TRUE, tree |-> TreeC]
      [] path = F_txt  -> [valid |-> TRUE, tree |-> TreeC]
      [] OTHER         -> [valid |-> FALSE, tree |-> Node("Module", <<>>, <<>>, 0, <<>>)]

IsPrefix(d, p) == Len(d) <= Len(p) /\ SubSeq(p, 1, Len(d)) = d

\* os.path.isdir: a directory exists when a file exists below it
isdir(files, d) == \E p \in files : IsPrefix(d, p) /\ Len(p) > Len(d)

\* os.listdir
listdir(files, d) == {p[Len(d) + 1] : p \in {q \in files : IsPrefix(d, q) /\ Len(q) > Len(d)}}

Perms(S) == {f \in [1..Cardinality(S) -> S] : \A i, j \in 1..Cardinality(S) : f[i] = f[j] => i = j}

\* glob hides the names that start with a dot
ishidden(x) == StartsWith(x, <<".">>)

\* glob._rlistdir: every order os.scandir may list a directory in; each
\* entry is followed by what is below it
RECURSIVE rlistdir(_, _)
RECURSIVE rlistdirNames(_, _, _)
rlistdirNames(files, d, names) ==
    IF names = <<>> THEN {<<>>}
    ELSE LET x == Head(names)
         IN  IF ishidden(x) THEN rlistdirNames(files, d, Tail(names))
             ELSE { <<Append(d, x)>> \o below \o rest :
                      below \in rlistdir(files, Append(d, x)),
                      rest \in rlistdirNames(files, d, Tail(names)) }

rlistdir(files, d) ==
    UNION { rlistdirNames(files, d, names) : names \in Perms(listdir(files, d)) }

\* glob.iglob(f'{base_folder}/**', recursive=True): the sequences of file
\* names it may yield, base_folder + '/' first
iglob(files, base_folder) ==
    LET d == Split(base_folder, "/")
    IN  IF ~isdir(files, d) THEN {<<>>}
        ELSE { <<base_folder \o <<"/">> >> \o
                 [i \in 1..Len(below) |-> Join(below[i], <<"/">>)] :
               below \in rlistdir(files, d) }

\* os.path.isfile
isfile(files, filename) == Split(filename, "/") \in files

\* read_source_file
read_source_file(filename) == Source(Split(filename, "/"))

Range(xs) == {xs[i] : i \in 1..Len(xs)}

-----------------------------------------------------------------------------
(* index_folder *)

STDLIB_IGNORE ==
    << S_test,
       <<"s", "i", "t", "e", "-", "p", "a", "c", "k", "a", "g", "e", "s">>,
       <<"l", "i", "b", "2", "t", "o", "3">> >>

MaxIgnoreLen == 6

\* filename.endswith('py') and not bool(set(current_dir) & set(folders_to_ignore))
want_to_continue(filename, folders_to_ignore) ==
    LET current_dir == Split(filename, "/")
    IN  /\ EndsWith(filename, <<"p", "y">>)
        /\ Range(current_dir) \cap Range(folders_to_ignore) = {}

\* faulty variant: a file that does not parse is skipped and the scan goes on
RECURSIVE ScanFromSkipBad(_, _, _, _, _)
ScanFromSkipBad(files, entries, folders_to_ignore, functions, reading) ==
    IF entries = <<>>
    THEN [raised |-> FALSE, functions |-> functions, reading |-> reading]
    ELSE LET filename == Head(entries)
         IN  IF isfile(files, filename) /\ want_to_continue(filename, folders_to_ignore)
             THEN LET source_code == read_source_file(filename)
                  IN  ScanFromSkipBad(files, Tail(entries), folders_to_ignore,
                        IF source_code.valid
                        THEN functions \o ExtractFunctions(source_code.tree, filename)
                        ELSE functions,
                        Append(reading, filename))
             ELSE ScanFromSkipBad(files, Tail(entries), folders_to_ignore, functions, reading)

\* the loop over glob.iglob: the functions gathered, the files announced by
\* 'Reading ...', and whether ast.parse raised
RECURSIVE ScanFrom(_, _, _, _, _)
ScanFrom(files, entries, folders_to_ignore, functions, reading) ==
    IF entries = <<>>
    THEN [raised |-> FALSE, functions |-> functions, reading |-> reading]
    ELSE LET filename == Head(entries)
         IN  IF isfile(files, filename) /\ want_to_continue(filename, folders_to_ignore)
             THEN LET source_code == read_source_file(filename)
                  IN  IF ~source_code.valid
                      THEN [raised |-> TRUE, functions |-> functions,
                            reading |-> Append(reading, filename)]
                      ELSE ScanFrom(files, Tail(entries), folders_to_ignore,
                                    functions \o ExtractFunctions(source_code.tree, filename),
                                    Append(reading, filename))
             ELSE ScanFrom(files, Tail(entries), folders_to_ignore, functions, reading)

\* faulty variant: the results are saved before the files are scanned
SavedContentEmpty(functions) == <<>>

\* save_json(content=functions)
SavedContent(functions) == functions

NoCall ==
    [active |-> FALSE, base_folder |-> <<>>, default |-> FALSE,
     ignoreBefore |-> <<>>, cacheBefore |-> <<>>, retBefore |-> <<>>]

\* faulty variant: the cache is not looked at
CacheExistsNever(document) == FALSE

\* os.path.exists(JSON_OUTPUT)
CacheExists(document) == document # <<>>

\* index_folder(base_folder, folders_to_ignore); default: the argument is
\* omitted, so folders_to_ignore is the list object of the default
index_folder(base_folder, default) ==
    LET folders_to_ignore == IF default THEN defaultIgnore ELSE userIgnore
        thisCall == [active |-> TRUE, base_folder |-> base_folder, default |-> default,
                     ignoreBefore |-> folders_to_ignore, cacheBefore |-> cache,
                     retBefore |-> IF ret.status = "ok" THEN <<ret.value>> ELSE <<>>]
    IN
    /\ UNCHANGED <<normVars, sortVars>>
    /\ call' = thisCall
    /\ IF CacheExists(cache)
       THEN /\ ret' = [status |-> "ok", value |-> read_json_file(cache[1])]
            /\ log' = <<>>
            /\ UNCHANGED <<fs, cache, userIgnore, defaultIgnore>>
       ELSE /\ Len(folders_to_ignore) + Len(STDLIB_IGNORE) <= MaxIgnoreLen
            \* folders_to_ignore += STDLIB_IGNORE extends the list object
            /\ IF default
               THEN /\ defaultIgnore' = defaultIgnore \o STDLIB_IGNORE
                    /\ UNCHANGED userIgnore
               ELSE /\ userIgnore' = userIgnore \o STDLIB_IGNORE
                    /\ UNCHANGED defaultIgnore
            /\ \E entries \in iglob(fs, base_folder) :
                 LET scan == ScanFrom(fs, entries, folders_to_ignore \o STDLIB_IGNORE,
                                      <<>>, <<>>)
                 IN  /\ log' = scan.reading
                     /\ IF scan.raised
                        THEN \* SyntaxError leaves index_folder
                             /\ ret' = [status |-> "error", value |-> <<>>]
                             /\ UNCHANGED cache
                        ELSE /\ cache' = <<save_json(SavedContent(scan.functions))>>
                             /\ ret' = [status |-> "ok", value |-> scan.functions]
            /\ UNCHANGED fs

-----------------------------------------------------------------------------
(* The environment of index_folder *)

BaseFolders == { S_s, S_s \o <<"/">> \o S_py }

UserLists == { <<S_py>>, <<S_a_py>> }

InitIndex ==
    /\ fs \in SUBSET Files
    /\ cache = <<>>
    /\ userIgnore \in UserLists
    /\ defaultIgnore = <<>>
    /\ ret = [status |-> "none", value |-> <<>>]
    /\ call = NoCall
    /\ log = <<>>

CreateFile(p) ==
    /\ p \notin fs
    /\ fs' = fs \cup {p}
    /\ call' = NoCall
    /\ UNCHANGED <<cache, userIgnore, defaultIgnore, ret, log>>
    /\ UNCHANGED <<normVars, sortVars>>

DeleteFile(p) ==
    /\ p \in fs
    /\ fs' = fs \ {p}
    /\ call' = NoCall
    /\ UNCHANGED <<cache, userIgnore, defaultIgnore, ret, log>>
    /\ UNCHANGED <<normVars, sortVars>>

\* the user deletes functions.json
DeleteCache ==
    /\ cache # <<>>
    /\ cache' = <<>>
    /\ call' = NoCall
    /\ UNCHANGED <<fs, userIgnore, defaultIgnore, ret, log>>
    /\ UNCHANGED <<normVars, sortVars>>

\* the process ends and the program is started again
Restart ==
    /\ ret.status # "none"
    /\ defaultIgnore' = <<>>
    /\ userIgnore' \in UserLists
    /\ ret' = [status |-> "none", value |-> <<>>]
    /\ call' = NoCall
    /\ log' = <<>>
    /\ UNCHANGED <<fs, cache>>
    /\ UNCHANGED <<normVars, sortVars>>

NextIndex ==
    \/ \E base_folder \in BaseFolders, default \in BOOLEAN : index_folder(base_folder, default)
    \/ \E p \in Files : CreateFile(p)
    \/ \E p \in Files : DeleteFile(p)
    \/ DeleteCache
    \/ Restart

-----------------------------------------------------------------------------
(* Specifications *)

NormalizeIdle ==
    /\ raw = <<>> /\ variant = <<>> /\ pads = 0 /\ padOK = TRUE
    /\ norm1 = <<>> /\ norm2 = <<>> /\ normV = <<>>

SortIdle ==
    /\ rawq = <<>> /\ sortq = <<>> /\ funcs = <<>> /\ ranked = <<>> /\ via = "none"

IndexIdle ==
    /\ fs = {} /\ cache = <<>> /\ userIgnore = <<>> /\ defaultIgnore = <<>>
    /\ ret = [status |-> "none", value |-> <<>>] /\ call = NoCall /\ log = <<>>

Init == InitIndex /\ NormalizeIdle /\ SortIdle
Next == NextIndex
Spec == Init /\ [][Next]_vars

InitN == InitNormalize /\ SortIdle /\ IndexIdle
NextN == NextNormalize
SpecNormalize == InitN /\ [][NextN]_vars

InitS == InitSort /\ NormalizeIdle /\ IndexIdle
NextS == NextSort
SpecSort == InitS /\ [][NextS]_vars

-----------------------------------------------------------------------------
(* Properties of index_folder, checked under Spec *)

\* the call that just returned found no functions.json / found one
Indexed == call.active /\ call.cacheBefore = <<>>
Cached == call.active /\ call.cacheBefore # <<>>

\* the files below base_folder
Under(base_folder) == {p \in fs : IsPrefix(Split(base_folder, "/"), p)}

PathName(p) == Join(p, <<"/">>)

\* the list folders_to_ignore names once STDLIB_IGNORE is added
IgnoredBy(c) == c.ignoreBefore \o STDLIB_IGNORE

\* C1: a call made while functions.json exists returns the list stored in
\* it, for any base_folder and folders_to_ignore and whatever the directory
\* tree has become, reads no file and leaves functions.json as it was.
C1_CacheShortCircuit ==
    Cached =>
        /\ ret = [status |-> "ok", value |-> read_json_file(call.cacheBefore[1])]
        /\ cache = call.cacheBefore
        /\ log = <<>>

\* the tree is empty by now and the call still returns the functions cached
C1_Witness ==
    /\ Cached
    /\ fs = {}
    /\ Len(ret.value) >= 2
    /\ call.base_folder # S_s

\* C4: with no functions.json, a file below base_folder that index_folder
\* selects and that does not parse makes the call fail, and no functions.json
\* exists afterwards, however many files were parsed before it.
C4_FatalParseFailure ==
    (/\ Indexed
     /\ \E p \in Under(call.base_folder) :
           /\ want_to_continue(PathName(p), IgnoredBy(call))
           /\ ~Source(p).valid)
    => (ret.status = "error" /\ ret.value = <<>> /\ cache = <<>>)

\* the call failed after another file had been read and parsed
C4_Witness ==
    /\ Indexed
    /\ ret.status = "error"
    /\ Len(log) >= 3
    /\ cache = <<>>

RECURSIVE AllNodes(_)
AllNodes(node) == {node} \cup UNION {AllNodes(c) : c \in Range(node.body)}

Occurrences(xs, x) == Len(SelectSeq(xs, LAMBDA y : y = x))

IsDunder(name) == Len(name) >= 2 /\ name[1] = "_" /\ name[2] = "_"

\* C7: after a scan that succeeded, every function definition of every
\* parsed file, nested ones and methods included, whose name does not start
\* with "__" has exactly one record, a definition whose name starts with
\* "__" has none, and every record comes from such a definition.
C7_ExtractionSkipsDunder ==
    (Indexed /\ ret.status = "ok") =>
        /\ \A f \in Range(log) :
             \A node \in AllNodes(read_source_file(f).tree) :
                node.kind = "FunctionDef" =>
                    Occurrences(ret.value,
                                [name |-> node.name, args |-> node.args,
                                 filename |-> f, line |-> node.lineno])
                      = (IF IsDunder(node.name) THEN 0 ELSE 1)
        /\ \A i \in 1..Len(ret.value) :
             /\ ~IsDunder(ret.value[i].name)
             /\ ret.value[i].filename \in Range(log)
             /\ \E node \in AllNodes(read_source_file(ret.value[i].filename).tree) :
                   /\ node.kind = "FunctionDef"
                   /\ node.name = ret.value[i].name
                   /\ node.lineno = ret.value[i].line

\* a file holding a nested function, a class with __init__ and a method was scanned
C7_Witness ==
    /\ Indexed /\ ret.status = "ok"
    /\ PathName(F_a) \in Range(log)
    /\ \E i \in 1..Len(ret.value) : ret.value[i].name = <<"_", "p">>
    /\ \E i \in 1..Len(ret.value) : ret.value[i].name = <<"b", "a", "r">>

\* C8: a scan that succeeded leaves a functions.json that reads back as the
\* list returned, field for field and in the same order; the call after it
\* returns a list equal to the one the scan returned.
C8_PersistRoundTrip ==
    /\ (Indexed /\ ret.status = "ok") =>
          /\ cache # <<>>
          /\ read_json_file(cache[1]) = ret.value
          /\ \A i \in 1..Len(ret.value) :
                LET r == read_json_file(cache[1])[i]
                IN  /\ r.name = ret.value[i].name
                    /\ r.args = ret.value[i].args
                    /\ r.filename = ret.value[i].filename
                    /\ r.line = ret.value[i].line
    /\ (Cached /\ call.retBefore # <<>>) => (ret.status = "ok" /\ ret.value = call.retBefore[1])

\* the call after a scan returned the scan's records again
C8_Witness ==
    /\ Cached
    /\ call.retBefore # <<>>
    /\ Len(ret.value) >= 3
    /\ \E i \in 1..Len(ret.value) : Len(ret.value[i].args) = 2

\* eligibility as the documentation states it: the name ends in '.py' and
\* no directory of the path is ignored
SpecEligible(filename, folders_to_ignore) ==
    LET current_dir == Split(filename, "/")
    IN  /\ EndsWith(filename, <<".", "p", "y">>)
        /\ Range(SubSeq(current_dir, 1, Len(current_dir) - 1))
             \cap Range(folders_to_ignore) = {}

\* C9: with no functions.json, a file below base_folder is read and parsed
\* if and only if its name ends in '.py' and no directory name of its path
\* is in folders_to_ignore or STDLIB_IGNORE.
C9_FileEligibility ==
    (Indexed /\ ret.status = "ok") =>
        \A p \in Under(call.base_folder) :
            (PathName(p) \in Range(log)) <=> SpecEligible(PathName(p), IgnoredBy(call))

\* C10: index_folder leaves the caller's folders_to_ignore list as it was,
\* and the default list is the same (empty) on every call.
C10_NoSideEffectOnIgnoreLists ==
    call.active =>
        IF call.default THEN defaultIgnore = <<>> /\ call.ignoreBefore = <<>>
        ELSE userIgnore = call.ignoreBefore

-----------------------------------------------------------------------------
(* Properties of sort, checked under SpecSort *)

Score(i) == ranked[1][i][1]
Record(i) == ranked[1][i][2]

Position(rec) == CHOOSE i \in 1..Len(ranked[1]) : Record(i) = rec

ThreeSignatures == {RecFoo, RecFoobar, RecBaz} \subseteq Range(funcs)

\* C2 as stated: sort normalizes the raw query itself, so every score is
\* editDistance(normalize(q), normalize(signature)), and the query "foo(x)"
\* ranks foo(x) first with score 0 and foobar(x) before baz(y).
C2_SortNormalizesQuery ==
    (via = "direct" /\ HasParen(rawq)) =>
        /\ \A i \in 1..Len(ranked[1]) :
              Score(i) = lev(normalize(rawq), normalize(get_signature(Record(i), FALSE)))
        /\ (rawq = Q_foo_x /\ ThreeSignatures) =>
              /\ Score(1) = 0
              /\ get_signature(Record(1), FALSE) = Q_foo_x
              /\ Position(RecFoobar) < Position(RecBaz)

\* C2 as amended: sort scores against the query exactly as it receives it;
\* __main__ normalizes the query before the call, and then the query
\* "foo(x)" ranks foo(x) first with score 0 and foobar(x) before baz(y).
C2_SortUsesQueryAsPassed ==
    (via \in {"direct", "main"}) =>
        /\ \A i \in 1..Len(ranked[1]) :
              Score(i) = lev(sortq, normalize(get_signature(Record(i), FALSE)))
        /\ via = "main" => sortq = normalize(rawq)
        /\ (via = "main" /\ rawq = Q_foo_x /\ ThreeSignatures) =>
              /\ Score(1) = 0
              /\ get_signature(Record(1), FALSE) = Q_foo_x
              /\ Position(RecFoobar) < Position(RecBaz)

\* __main__ searched "foo(x)" among baz(y), foobar(x), foo(x)
C2_Witness ==
    /\ via = "main"
    /\ rawq = Q_foo_x
    /\ funcs = <<RecBaz, RecFoobar, RecFoo>>
    /\ ranked[1] = << <<0, RecFoo>>, <<3, RecFoobar>>, <<4, RecBaz>> >>

\* C3: the output pairs each input record with one score, once; the scores
\* do not decrease; records of equal score keep their input order.
C3_SortedStablePermutation ==
    ranked # <<>> =>
        /\ Len(ranked[1]) = Len(funcs)
        /\ \E p \in Perms(1..Len(funcs)) :
              /\ \A i \in 1..Len(funcs) : Record(i) = funcs[p[i]]
              /\ \A i, j \in 1..Len(funcs) :
                    i < j => /\ Score(i) <= Score(j)
                             /\ Score(i) = Score(j) => p[i] < p[j]

\* two different records of equal score, behind a record that sorts after them
C3_Witness ==
    /\ ranked # <<>>
    /\ funcs = <<RecBaz, RecFoo, RecFooB>>
    /\ Record(1) = RecFoo /\ Record(2) = RecFooB /\ Record(3) = RecBaz
    /\ Score(1) = Score(2)

-----------------------------------------------------------------------------
(* Properties of normalize, checked under SpecNormalize *)

IsZipfile == <<"i", "s", " ", "z", "i", "p", "f", "i", "l", "e", "(", "f", "i", "l", "e", "n", "a", "m", "e", ")">>
IsZipfileSpaced == <<"i", "s", " ", " ", " ", " ", "z", "i", "p", "f", "i", "l", "e", " ", "(", " ", "f", "i", "l", "e", "n", "a", "m", "e", " ", ")">>
IsZipfileNormal == <<"i", "s", "_", "z", "i", "p", "f", "i", "l", "e", " ", "(", " ", "f", "i", "l", "e", "n", "a", "m", "e", " ", ")">>

\* C5: for every input with a '(', normalizing the output of normalize
\* succeeds and gives that output again.
C5_NormalizeIdempotent ==
    /\ norm1 # <<>> => HasParen(norm1[1])
    /\ norm2 # <<>> => norm2 = norm1

\* an input with several '(' and several ')' was normalized twice
C5_Witness ==
    /\ norm2 # <<>>
    /\ Count(raw, "(") >= 2
    /\ Count(raw, ")") >= 2
    /\ raw # norm1[1]

\* C6 as stated: padding whitespace (spaces or tabs) between the words of
\* the name, around the parentheses or around an argument never changes
\* the output.
C6_WhitespaceInsensitive ==
    (normV # <<>> /\ norm1 # <<>>) => normV = norm1

\* C6 as amended: padding space characters in those places, or any
\* whitespace around the arguments and the closing parenthesis, never
\* changes the output; only the space character separates the words of the
\* name, which are joined with '_'.
C6_SpaceInsensitive ==
    /\ (normV # <<>> /\ norm1 # <<>> /\ padOK) => normV = norm1
    /\ normalize(IsZipfile) = IsZipfileNormal
    /\ normalize(IsZipfileSpaced) = IsZipfileNormal

\* spaces were padded into a two-word name with two arguments
C6_Witness ==
    /\ normV # <<>> /\ padOK
    /\ pads >= 2
    /\ raw = <<"a", " ", "b", "(", "a", ",", "b", ")">>
    /\ FirstParen(variant) > FirstParen(raw)
    /\ Len(variant) - FirstParen(variant) > Len(raw) - FirstParen(raw)
    /\ normV[1] = <<"a", "_", "b", " ", "(", " ", "a", ",", " ", "b", " ", ")">>

=============================================================================
